---------------------------- MODULE Spec2Model ----------------------------
(***************************************************************************)
(* State-machine model of src/GPTFlappyBird/src/FlappyBird.jsx.            *)
(*                                                                         *)
(* Numbers.  The program computes in real (floating point) numbers; the    *)
(* model computes the same quantities exactly in fixed point:              *)
(*   time       1 unit = 1 ms            (dt of the code is dtMs / 1000)   *)
(*   length     1 unit = 1/5000 px       (Px)                              *)
(*   velocity   1 unit = 1/5 px/s        (Vel)                             *)
(* so that gravity * dt and velocity * dt are whole numbers for every dt   *)
(* that is a whole number of ms.                                           *)
(*                                                                         *)
(* Frames.  requestAnimationFrame callbacks scheduled before a frame run   *)
(* one after the other in that frame, all with the frame's timestamp;      *)
(* input handlers run between frames.  Timestamps are kept relative to the *)
(* current frame: the current frame's timestamp is always Now, and the     *)
(* driver ages lastTimeRef instead of advancing a clock (the code reads    *)
(* lastTimeRef only as ts - lastTimeRef and as a truth value).             *)
(***************************************************************************)
EXTENDS Integers, Sequences, FiniteSets, TLC

\* ------------------------------------------------------------------ cfg
w == 360
h == 640
groundH == 80
gravity == 1800
jump == -420
pipeGap == 160
pipeW == 70
pipeSpeed == 150
spawnEvery == 1400
birdX == 90
birdR == 14
\* spawnPipe: const minTop = 60, and the same margin under the gap
minTop == 60
minBottom == 60
\* spawnPipe: x: cfg.current.w + 40
spawnAhead == 40
\* loop: Math.min(0.033, ...), in ms
DtCap == 33

\* ------------------------------------------------------------ fixed point
Px(n) == n * 5000
Vel(n) == n * 5

Min(a, b) == IF a <= b THEN a ELSE b
Max(a, b) == IF a >= b THEN a ELSE b

\* ---------------------------------------------------------------- bounds
\* The frame's timestamp (timestamps are relative to the current frame).
Now == 100
\* lastTimeRef is aged no further than this many ms (more than DtCap).
MaxAge == 50
\* Frame callbacks pending at once: Reset and Resume are explored below it.
MaxLoops == 2
\* A Running frame is delivered only while the score is below this.
MaxScore == 3
\* The player presses Flap only while the actor's centre is at mid-field or
\* at most this many px below it, and is sinking or held by a pause.
FlapBand == 20
\* The player pauses a run only within this many ms after a spawn.
PauseWindow == 100
\* In plain play a Running frame is delivered only while the score is below this.
PlayScore == 16
\* Frames per second of the 60 Hz display.
FrameRate == 60
\* The stored best score of the sessions explored.
StoredBest == 1

\* Frame gaps the driver delivers (ms): at the cap, and beyond it.
FrameGaps == {DtCap, MaxAge}
\* Math.random() is explored at the values k / RandomLevels, k in RandomChoices.
RandomLevels == 14

\* The longest stored text explored at startup.
MaxText == 3

\* How long (ms) a run is followed when frames come at uneven gaps.
TimedRun == 120

\* How many obstacles a long run is followed for.
MaxSpawned == 4

\* The longest half step (ms) and the longest fall (ms) of the physics alone.
MaxHalf == 16
MaxFall == 36
RandomChoices == {0, 7, RandomLevels - 1}

VARIABLES
  birdY,            \* birdYRef
  birdVY,           \* birdVYRef
  pipes,            \* pipesRef: sequence of [x, topH]
  score,            \* scoreRef (and the score state set from it)
  passedPipeIndex,  \* passedPipeIndexRef
  lastSpawn,        \* lastSpawnRef (ms)
  lastTime,         \* lastTimeRef (0, or a timestamp relative to Now)
  gameStarted,      \* gameStartedRef
  paused,           \* pausedRef
  gameOver,         \* gameOverRef
  best,             \* the best state of the latest render
  stored,           \* localStorage "flappy_best": [has, text, throws]
  mountBest,        \* best as captured by the closures of the first render
  rafRef,           \* rafRef: TRUE when it holds a request id
  pending,          \* loop callbacks requested for the next frame
  frame,            \* loop callbacks of the current frame not yet run
  held,             \* the keyboard: Space is held down and auto-repeats
  spawned,          \* history: obstacles spawned since the last resetGame
  ev                \* history: the handler that ran last and what it saw

vars == << birdY, birdVY, pipes, score, passedPipeIndex, lastSpawn, lastTime,
           gameStarted, paused, gameOver, best, stored, mountBest, rafRef,
           pending, frame, held, spawned, ev >>

game == << birdY, birdVY, pipes, score, passedPipeIndex, lastSpawn,
           gameStarted, paused, gameOver, spawned >>

\* ------------------------------------------------------------ run states
Running == gameStarted /\ ~paused /\ ~gameOver

RunState ==
  IF ~gameStarted THEN "NotStarted"
  ELSE IF gameOver THEN "Over"
  ELSE IF paused THEN "Paused"
  ELSE "Running"

\* ------------------------------------------------------------ persistence
Digits == <<"0", "1", "2", "3", "4", "5", "6", "7", "8", "9">>

DigitOf(c) == (CHOOSE i \in 1..10 : Digits[i] = c) - 1

IsDigit(c) == \E i \in 1..10 : Digits[i] = c

RECURSIVE StringOf(_)
\* String(n) for an integer n >= 0
StringOf(n) ==
  IF n < 10 THEN << Digits[n + 1] >>
  ELSE Append(StringOf(n \div 10), Digits[(n % 10) + 1])

RECURSIVE DecimalValue(_)
DecimalValue(s) ==
  IF s = << >> THEN 0
  ELSE 10 * DecimalValue(SubSeq(s, 1, Len(s) - 1)) + DigitOf(s[Len(s)])

RECURSIVE TrimStart(_)
TrimStart(s) == IF s # << >> /\ s[1] = " " THEN TrimStart(Tail(s)) ELSE s

RECURSIVE TrimEnd(_)
TrimEnd(s) ==
  IF s # << >> /\ s[Len(s)] = " " THEN TrimEnd(SubSeq(s, 1, Len(s) - 1)) ELSE s

\* Number(text) for a text of digits, signs, blanks and letters: blanks
\* around the literal are dropped, the empty literal is 0, an optional sign
\* and decimal digits are that integer, and anything else is NaN.
Number(text) ==
  LET t == TrimEnd(TrimStart(text))
      signed == t # << >> /\ t[1] \in {"-", "+"}
      d == IF signed THEN Tail(t) ELSE t
  IN  IF t = << >> THEN [finite |-> TRUE, value |-> 0]
      ELSE IF d # << >> /\ \A i \in 1..Len(d) : IsDigit(d[i])
           THEN [finite |-> TRUE,
                 value |-> IF t[1] = "-" THEN 0 - DecimalValue(d)
                           ELSE DecimalValue(d)]
           ELSE [finite |-> FALSE, value |-> 0]

\* Number(localStorage.getItem("flappy_best") || 0), then Number.isFinite;
\* getItem gives null when there is no item.
LoadBest(item) ==
  IF ~item.has \/ item.text = << >> THEN 0
  ELSE IF Number(item.text).finite THEN Number(item.text).value ELSE 0

NoItem == [has |-> FALSE, text |-> << >>, throws |-> FALSE]
Item(s) == [has |-> TRUE, text |-> s, throws |-> FALSE]
\* The storage cannot be read: localStorage.getItem throws.
Unavailable == [has |-> FALSE, text |-> << >>, throws |-> TRUE]

StoredInit == {NoItem, Item(StringOf(StoredBest))}

\* ------------------------------------------------------------------ Init
Init ==
  /\ stored \in StoredInit
  /\ best = LoadBest(stored)
  /\ mountBest = best
  /\ birdY = Px(h) \div 2
  /\ birdVY = 0
  /\ pipes = << >>
  /\ score = 0
  /\ passedPipeIndex = 0
  /\ lastSpawn = 0
  /\ lastTime = 0
  /\ gameOver = FALSE
  /\ gameStarted = FALSE
  /\ paused = FALSE
  /\ rafRef = TRUE
  /\ pending = << mountBest >>
  /\ frame = << >>
  /\ held = FALSE
  /\ spawned = 0
  /\ ev = [op |-> "mount", run |-> "NotStarted", score |-> 0, vy |-> 0, dt |-> 0]

\* What a handler saw when it started.
Saw(op, dt) ==
  [op |-> op, run |-> RunState, score |-> score, vy |-> birdVY, dt |-> dt]

\* --------------------------------------------------------------- helpers
\* Faulty variant: resetGame that forgets the score.
resetGameKeepsScore ==
  /\ birdY' = Px(h) \div 2
  /\ birdVY' = 0
  /\ pipes' = << >>
  /\ passedPipeIndex' = 0
  /\ lastSpawn' = 0
  /\ lastTime' = 0
  /\ gameOver' = FALSE
  /\ gameStarted' = FALSE
  /\ spawned' = 0
  /\ UNCHANGED << score, paused >>

resetGame ==
  /\ birdY' = Px(h) \div 2
  /\ birdVY' = 0
  /\ pipes' = << >>
  /\ score' = 0
  /\ passedPipeIndex' = 0
  /\ lastSpawn' = 0
  /\ lastTime' = 0
  /\ gameOver' = FALSE
  /\ gameStarted' = FALSE
  /\ spawned' = 0
  /\ UNCHANGED paused

\* Faulty variant: flap that does not ignore flaps on game over.
flapWhenOver ==
  /\ gameStarted' = TRUE
  /\ paused' = IF ~gameStarted THEN FALSE ELSE paused
  /\ birdVY' = Vel(jump)

\* Faulty variant: flap that adds the impulse to the velocity.
flapAdds ==
  /\ gameStarted' = TRUE
  /\ paused' = IF ~gameStarted THEN FALSE ELSE paused
  /\ birdVY' = IF gameOver THEN birdVY ELSE birdVY + Vel(jump)

flap ==
  /\ gameStarted' = TRUE
  /\ paused' = IF ~gameStarted THEN FALSE ELSE paused
  /\ birdVY' = IF gameOver THEN birdVY ELSE Vel(jump)

\* rafRef.current = requestAnimationFrame(loop), loop being the function of
\* the render whose best is b
requestAnimationFrame(b) ==
  /\ pending' = Append(pending, b)
  /\ rafRef' = TRUE

\* Faulty variant: togglePause without its early return.
togglePauseUnguarded(b) ==
  /\ paused' = ~paused
  /\ IF ~paused'
     THEN lastTime' = 0 /\ requestAnimationFrame(b)
     ELSE UNCHANGED << lastTime, pending, rafRef >>

\* Faulty variant: a resume that keeps the time reference.
togglePauseKeepsTime(b) ==
  IF ~gameStarted \/ gameOver
  THEN UNCHANGED << paused, lastTime, pending, rafRef >>
  ELSE /\ paused' = ~paused
       /\ IF ~paused'
          THEN lastTime' = lastTime /\ requestAnimationFrame(b)
          ELSE UNCHANGED << lastTime, pending, rafRef >>

togglePause(b) ==
  IF ~gameStarted \/ gameOver
  THEN UNCHANGED << paused, lastTime, pending, rafRef >>
  ELSE /\ paused' = ~paused
       /\ IF ~paused'
          THEN lastTime' = 0 /\ requestAnimationFrame(b)
          ELSE UNCHANGED << lastTime, pending, rafRef >>

\* Faulty variant: spawnPipe that draws topH from the whole field height.
spawnPipeAnywhere(ps, canvasH, k) ==
  Append(ps, [x |-> Px(w + spawnAhead),
              topH |-> (k * Px(canvasH)) \div RandomLevels])

\* Faulty variant: spawnPipe that puts the new pipe in front.
spawnPipeInFront(ps, canvasH, k) ==
  LET maxTop == canvasH - groundH - pipeGap - minBottom
      topH == Px(minTop) + (k * Px(maxTop - minTop)) \div RandomLevels
  IN  << [x |-> Px(w + spawnAhead), topH |-> topH] >> \o ps

\* topH = minTop + Math.random() * (maxTop - minTop), Math.random() = k / RandomLevels
spawnPipe(ps, canvasH, k) ==
  LET maxTop == canvasH - groundH - pipeGap - minBottom
      topH == Px(minTop) + (k * Px(maxTop - minTop)) \div RandomLevels
  IN  Append(ps, [x |-> Px(w + spawnAhead), topH |-> topH])

\* dx * dx + dy * dy <= cr * cr, exactly, for numbers whose squares exceed
\* the range of the model checker's integers (split at 1000)
SumSqLeq(dx, dy, cr) ==
  LET Abs(a) == IF a < 0 THEN -a ELSE a
      ax == Abs(dx)
      ay == Abs(dy)
      hi == (ax \div 1000) * (ax \div 1000) + (ay \div 1000) * (ay \div 1000)
              - (cr \div 1000) * (cr \div 1000)
      lo == 2000 * ((ax \div 1000) * (ax % 1000) + (ay \div 1000) * (ay % 1000)
                      - (cr \div 1000) * (cr % 1000))
              + (ax % 1000) * (ax % 1000) + (ay % 1000) * (ay % 1000)
              - (cr % 1000) * (cr % 1000)
  IN  IF ax > cr \/ ay > cr THEN FALSE
      ELSE hi <= ((-lo) \div 1000000)

circleRect(cx, cy, cr, rx, ry, rw, rh) ==
  LET nx == Max(rx, Min(cx, rx + rw))
      ny == Max(ry, Min(cy, ry + rh))
  IN  SumSqLeq(cx - nx, cy - ny, cr)

\* Faulty variant: collides that tests the top pipe only.
collidesTopOnly(bx, by, r, pipe) ==
  circleRect(bx, by, r, pipe.x, 0, Px(pipeW), pipe.topH)

collides(bx, by, r, pipe) ==
  \/ circleRect(bx, by, r, pipe.x, 0, Px(pipeW), pipe.topH)
  \/ circleRect(bx, by, r, pipe.x, pipe.topH + Px(pipeGap), Px(pipeW),
                Px(h - groundH) - (pipe.topH + Px(pipeGap)))

RECURSIVE PruneEarly(_, _)
\* Faulty variant: pipes removed as soon as their left edge is off-screen.
PruneEarly(ps, passed) ==
  IF ps # << >> /\ ps[1].x < 0
  THEN PruneEarly(Tail(ps), Max(0, passed - 1))
  ELSE [pipes |-> ps, passed |-> passed]

RECURSIVE Prune(_, _)
\* while (pipes.length && pipes[0].x + pipeW < 0) { shift; passed = max(0, passed - 1) }
Prune(ps, passed) ==
  IF ps # << >> /\ ps[1].x + Px(pipeW) < 0
  THEN Prune(Tail(ps), Max(0, passed - 1))
  ELSE [pipes |-> ps, passed |-> passed]

\* Faulty variant: no gravity.
fallWithoutGravity(vy, dt) == vy

\* Bird physics: birdVY += gravity * dt
fall(vy, dt) == vy + (Vel(gravity) * dt) \div 1000

\* Faulty variant: the position moved by the mean of the old and the new
\* velocity.
riseByMean(y, vy, dt) == y + vy * dt - (Vel(gravity) * dt * dt) \div 2000

\* Bird physics: birdY += birdVY * dt
rise(y, vy, dt) == y + vy * dt

\* Faulty variant: pipes that move at half speed.
advanceSlowly(ps, dt) ==
  [i \in 1..Len(ps) |-> [ps[i] EXCEPT !.x = @ - (Px(pipeSpeed) * dt) \div 2000]]

\* Pipes movement: p.x -= pipeSpeed * dt
advance(ps, dt) ==
  [i \in 1..Len(ps) |-> [ps[i] EXCEPT !.x = @ - (Px(pipeSpeed) * dt) \div 1000]]

\* Scoring: the score and passedPipeIndexRef after the scoring block
scoring(ps, passed, sc) ==
  LET some == ps # << >>
      counts == some /\ Px(birdX) > ps[1].x + Px(pipeW) /\ passed = 0
      passed1 == IF counts THEN 1 ELSE passed
  IN  [score |-> IF counts THEN sc + 1 ELSE sc,
       passed |-> IF some /\ ps[1].x + Px(pipeW) < Px(birdX - birdR)
                  THEN 0 ELSE passed1]

\* Collisions: with ground/ceiling
outOfBounds(y) ==
  y + Px(birdR) >= Px(h - groundH) \/ y - Px(birdR) <= 0

\* Collisions: with pipes
hitsPipe(y, ps) ==
  \E i \in 1..Len(ps) : collides(Px(birdX), y, Px(birdR), ps[i])

\* The update block of draw(ctx, dt): the values of the refs after it, for
\* the loop of the render whose best is b and Math.random() = k / RandomLevels.
Update(dt, b, k) ==
  LET vy1 == fall(birdVY, dt)
      y1 == rise(birdY, vy1, dt)
      moved == advance(pipes, dt)
      acc == lastSpawn + dt
      spawns == acc >= spawnEvery
      grown == IF spawns THEN spawnPipe(moved, h, k) ELSE moved
      pr == Prune(grown, passedPipeIndex)
      sc == scoring(pr.pipes, pr.passed, score)
      over == outOfBounds(y1) \/ hitsPipe(y1, pr.pipes)
      improved == over /\ sc.score > b
  IN  [birdY |-> y1, birdVY |-> vy1, pipes |-> pr.pipes, score |-> sc.score,
       passedPipeIndex |-> sc.passed, lastSpawn |-> IF spawns THEN 0 ELSE acc,
       gameOver |-> over, spawned |-> IF spawns THEN spawned + 1 ELSE spawned,
       best |-> IF improved THEN sc.score ELSE best,
       stored |-> IF improved THEN Item(StringOf(sc.score)) ELSE stored]

\* Faulty variant: draw that updates before the run has started.
drawBeforeStart(dt, b, k) ==
  IF ~paused /\ ~gameOver
  THEN LET u == Update(dt, b, k)
       IN  /\ birdY' = u.birdY
           /\ birdVY' = u.birdVY
           /\ pipes' = u.pipes
           /\ score' = u.score
           /\ passedPipeIndex' = u.passedPipeIndex
           /\ lastSpawn' = u.lastSpawn
           /\ gameOver' = u.gameOver
           /\ spawned' = u.spawned
           /\ best' = u.best
           /\ stored' = u.stored
  ELSE UNCHANGED << birdY, birdVY, pipes, score, passedPipeIndex, lastSpawn,
                    gameOver, spawned, best, stored >>

\* draw(ctx, dt)
draw(dt, b, k) ==
  IF gameStarted /\ ~paused /\ ~gameOver
  THEN LET u == Update(dt, b, k)
       IN  /\ birdY' = u.birdY
           /\ birdVY' = u.birdVY
           /\ pipes' = u.pipes
           /\ score' = u.score
           /\ passedPipeIndex' = u.passedPipeIndex
           /\ lastSpawn' = u.lastSpawn
           /\ gameOver' = u.gameOver
           /\ spawned' = u.spawned
           /\ best' = u.best
           /\ stored' = u.stored
  ELSE UNCHANGED << birdY, birdVY, pipes, score, passedPipeIndex, lastSpawn,
                    gameOver, spawned, best, stored >>

\* Faulty variant: the elapsed time without the cap.
DeltaTimeUncapped(ts) == IF lastTime # 0 THEN ts - lastTime ELSE 0

\* const dt of loop(ts), in ms
DeltaTime(ts) == IF lastTime # 0 THEN Min(DtCap, ts - lastTime) ELSE 0

\* loop(ts), for the loop of the render whose best is b
loop(ts, b) ==
  IF paused
  THEN /\ ev' = Saw("tick", 0)
       /\ UNCHANGED << birdY, birdVY, pipes, score, passedPipeIndex, lastSpawn,
                       lastTime, gameStarted, paused, gameOver, best, stored,
                       rafRef, pending, spawned >>
  ELSE \E k \in (IF Running /\ lastSpawn + DeltaTime(ts) >= spawnEvery
                  THEN RandomChoices ELSE {0}) :
         /\ lastTime' = ts
         /\ draw(DeltaTime(ts), b, k)
         /\ IF ~gameOver'
            THEN requestAnimationFrame(b)
            ELSE UNCHANGED << pending, rafRef >>
         /\ ev' = Saw("tick", DeltaTime(ts))
         /\ UNCHANGED << gameStarted, paused >>

\* ------------------------------------------------------- input bounds
MayFlap ==
  \/ gameOver
  \/ /\ birdY >= Px(h) \div 2
     /\ birdY <= Px(h) \div 2 + Px(FlapBand)
     /\ (birdVY >= 0 \/ paused)

MayPause == Running => lastSpawn < PauseWindow

MayRequest == Len(pending) < MaxLoops

\* --------------------------------------------------------------- actions
\* onKey: Space / ArrowUp
onKeyFlap ==
  /\ frame = << >>
  /\ flap
  /\ IF ~rafRef /\ ~paused'
     THEN requestAnimationFrame(mountBest)
     ELSE UNCHANGED << pending, rafRef >>
  /\ ev' = Saw("flap", 0)
  /\ UNCHANGED << birdY, pipes, score, passedPipeIndex, lastSpawn, lastTime,
                  gameOver, best, stored, mountBest, frame, spawned >>

\* Space pressed and released
KeyFlap ==
  /\ ~held
  /\ MayFlap
  /\ onKeyFlap
  /\ UNCHANGED held

\* handlePointer
PointerFlap ==
  /\ frame = << >>
  /\ MayFlap
  /\ flap
  /\ IF ~rafRef /\ ~paused'
     THEN requestAnimationFrame(best)
     ELSE UNCHANGED << pending, rafRef >>
  /\ ev' = Saw("tap", 0)
  /\ UNCHANGED << birdY, pipes, score, passedPipeIndex, lastSpawn, lastTime,
                  gameOver, best, stored, mountBest, frame, held, spawned >>

\* onKey: KeyP
KeyPause ==
  /\ frame = << >>
  /\ MayPause
  /\ (gameStarted /\ ~gameOver /\ paused) => MayRequest
  /\ togglePause(mountBest)
  /\ ev' = Saw("pause", 0)
  /\ UNCHANGED << birdY, birdVY, pipes, score, passedPipeIndex, lastSpawn,
                  gameStarted, gameOver, best, stored, mountBest, frame,
                  held, spawned >>

\* <button onClick={togglePause}>
ButtonPause ==
  /\ frame = << >>
  /\ MayPause
  /\ (gameStarted /\ ~gameOver /\ paused) => MayRequest
  /\ togglePause(best)
  /\ ev' = Saw("pause", 0)
  /\ UNCHANGED << birdY, birdVY, pipes, score, passedPipeIndex, lastSpawn,
                  gameStarted, gameOver, best, stored, mountBest, frame,
                  held, spawned >>

\* onKey: KeyR
KeyReset ==
  /\ frame = << >>
  /\ MayRequest
  /\ resetGame
  /\ requestAnimationFrame(mountBest)
  /\ ev' = Saw("reset", 0)
  /\ UNCHANGED << best, stored, mountBest, frame, held >>

\* const restart, <button onClick={restart}>
ButtonRestart ==
  /\ frame = << >>
  /\ MayRequest
  /\ resetGame
  /\ requestAnimationFrame(best)
  /\ ev' = Saw("reset", 0)
  /\ UNCHANGED << best, stored, mountBest, frame, held >>

\* The frame driver: gap ms after the previous frame, the callbacks requested
\* so far become the callbacks of this frame.
NextFrame(gaps) ==
  /\ frame = << >>
  /\ \E gap \in gaps :
       lastTime' = IF lastTime = 0 THEN 0 ELSE Max(Now - MaxAge, lastTime - gap)
  /\ frame' = pending
  /\ pending' = << >>
  /\ UNCHANGED << birdY, birdVY, pipes, score, passedPipeIndex, lastSpawn,
                  gameStarted, paused, gameOver, best, stored, mountBest,
                  rafRef, held, spawned, ev >>

BeginFrame ==
  /\ Running => score < MaxScore
  /\ NextFrame(FrameGaps)

\* The driver calls the next callback of the frame: loop(ts)
Tick ==
  /\ frame # << >>
  /\ frame' = Tail(frame)
  /\ loop(Now, Head(frame))
  /\ UNCHANGED << mountBest, held >>

Next ==
  \/ KeyFlap
  \/ PointerFlap
  \/ KeyPause
  \/ ButtonPause
  \/ KeyReset
  \/ ButtonRestart
  \/ BeginFrame
  \/ Tick

Spec == Init /\ [][Next]_vars

\* ------------------------------------------------------------ plain play
\* One run after the other: no pause, Reset only once the run is over and its
\* loop has stopped, runs followed up to a higher score.  A run may also be
\* started by holding Space down, which then repeats before every frame and
\* is released when the run is over.
KeyResetOver == gameOver /\ pending = << >> /\ KeyReset

ButtonRestartOver == gameOver /\ pending = << >> /\ ButtonRestart

\* Space pressed and held: the first keydown
KeyHold ==
  /\ ~held
  /\ ~gameStarted
  /\ onKeyFlap
  /\ held' = TRUE

\* Space held: a repeated keydown
KeyRepeat ==
  /\ held
  /\ birdVY # Vel(jump)
  /\ onKeyFlap
  /\ UNCHANGED held

\* Space released: no handler listens for keyup
KeyRelease ==
  /\ held
  /\ gameOver
  /\ frame = << >>
  /\ held' = FALSE
  /\ UNCHANGED << birdY, birdVY, pipes, score, passedPipeIndex, lastSpawn,
                  lastTime, gameStarted, paused, gameOver, best, stored,
                  mountBest, rafRef, pending, frame, spawned, ev >>

PlayFrame ==
  /\ Running => score < PlayScore
  /\ (held /\ Running) => birdVY = Vel(jump)
  /\ NextFrame(FrameGaps)

NextPlay ==
  \/ KeyFlap
  \/ PointerFlap
  \/ KeyHold
  \/ KeyRepeat
  \/ KeyRelease
  \/ KeyResetOver
  \/ ButtonRestartOver
  \/ PlayFrame
  \/ Tick

SpecPlay == Init /\ [][NextPlay]_vars

\* ------------------------------------------------------- one flap, 60 Hz
\* The first Flap of the session and nothing else; frames FrameRate per second.
FirstFlap == ~gameStarted /\ KeyFlap

Frame60 == NextFrame({1000 \div FrameRate, 1000 \div FrameRate + 1})

Next60 ==
  \/ FirstFlap
  \/ Frame60
  \/ Tick

Spec60 == Init /\ [][Next60]_vars

\* The browser delivers every scheduled frame, so a step of the 60 Hz play is
\* taken whenever one is possible.
Spec60Fair == Spec60 /\ WF_vars(Next60)

\* ---------------------------------------------------------- uneven frames
\* Every input, with frames a short, a capped or a long gap apart.
TimeGaps == {1000 \div FrameRate, DtCap, MaxAge}

FrameTime ==
  /\ Running => lastSpawn < TimedRun
  /\ NextFrame(TimeGaps)

NextTime ==
  \/ KeyFlap
  \/ PointerFlap
  \/ KeyPause
  \/ ButtonPause
  \/ KeyReset
  \/ ButtonRestart
  \/ FrameTime
  \/ Tick

SpecTime == Init /\ [][NextTime]_vars

\* --------------------------------------------------------------- long run
\* Runs followed until MaxSpawned obstacles have been spawned, whatever the
\* score, with a Reset at any moment of a run that has a single loop.
FrameLong ==
  /\ Running => spawned < MaxSpawned
  /\ NextFrame(FrameGaps)

ResetLong == Len(pending) <= 1 /\ KeyReset

NextLong ==
  \/ KeyFlap
  \/ ResetLong
  \/ FrameLong
  \/ Tick

SpecLong == Init /\ [][NextLong]_vars

\* ----------------------------------------------------------- bird physics
\* The bird physics of the update block alone, from mid-field at rest or
\* just after a flap, in steps of an even number of ms; lastSpawn keeps the
\* time fallen.
Steps == {2 * i : i \in 0..MaxHalf}

Integrate ==
  \E dt \in Steps :
    /\ lastSpawn + dt <= MaxFall
    /\ birdVY' = fall(birdVY, dt)
    /\ birdY' = rise(birdY, birdVY', dt)
    /\ lastSpawn' = lastSpawn + dt
    /\ ev' = Saw("step", dt)
    /\ UNCHANGED << pipes, score, passedPipeIndex, lastTime, gameStarted,
                    paused, gameOver, best, stored, mountBest, rafRef,
                    pending, frame, held, spawned >>

NextFall == FirstFlap \/ Integrate

SpecFall == Init /\ [][NextFall]_vars

\* ------------------------------------------------------------- startup
\* The characters of the stored texts explored at startup.
LoadAlphabet == {"0", "1", "-", " ", "a"}

RECURSIVE Texts(_)
Texts(n) ==
  IF n = 0 THEN {<< >>}
  ELSE Texts(n - 1) \cup
       {Append(t, c) : t \in {u \in Texts(n - 1) : Len(u) = n - 1},
                       c \in LoadAlphabet}

LoadInputs == {NoItem, Unavailable} \cup {Item(t) : t \in Texts(MaxText)}

\* Before the first render: nothing is initialised, no loop is requested.
InitLoad ==
  /\ stored \in LoadInputs
  /\ best = 0
  /\ mountBest = 0
  /\ birdY = Px(h) \div 2
  /\ birdVY = 0
  /\ pipes = << >>
  /\ score = 0
  /\ passedPipeIndex = 0
  /\ lastSpawn = 0
  /\ lastTime = 0
  /\ gameOver = FALSE
  /\ gameStarted = FALSE
  /\ paused = FALSE
  /\ rafRef = FALSE
  /\ pending = << >>
  /\ frame = << >>
  /\ held = FALSE
  /\ spawned = 0
  /\ ev = [op |-> "render", run |-> "NotStarted", score |-> 0, vy |-> 0,
           dt |-> 0]

\* The first render and the mount effect.  The initializer of best reads the
\* storage with no try/catch: when getItem throws, the render throws, the
\* component is not mounted and no loop is requested.
Mount ==
  /\ ev.op = "render"
  /\ IF stored.throws
     THEN /\ ev' = [ev EXCEPT !.op = "fault"]
          /\ UNCHANGED << best, mountBest, rafRef, pending >>
     ELSE /\ best' = LoadBest(stored)
          /\ mountBest' = best'
          /\ rafRef' = TRUE
          /\ pending' = << best' >>
          /\ ev' = [ev EXCEPT !.op = "mount"]
  /\ UNCHANGED << birdY, birdVY, pipes, score, passedPipeIndex, lastSpawn,
                  lastTime, gameStarted, paused, gameOver, stored, frame,
                  held, spawned >>

NextLoad == Mount

SpecLoad == InitLoad /\ [][NextLoad]_vars

\* ================================================================ claims
ResetStep == KeyReset \/ ButtonRestart

FlapStep == KeyFlap \/ PointerFlap \/ KeyHold \/ KeyRepeat

PauseStep == KeyPause \/ ButtonPause

\* Obstacles of the sequence whose right edge the actor has not passed yet.
NotYetPassed ==
  Cardinality({i \in 1..Len(pipes) : pipes[i].x + Px(pipeW) >= Px(birdX)})

\* C1: scoring fires exactly once per obstacle: the score is the number of
\* obstacles of this run whose right edge has gone behind the actor, and so
\* never more than the number of obstacles spawned in the run.
C1_ScoresOncePerObstacle ==
  /\ score <= spawned
  /\ score = spawned - NotYetPassed

\* C2: best and the persisted best never decrease, change only when the
\* final score strictly exceeds the current best, and best >= score after
\* every transition to Over.
C2_BestIsMaximum ==
  [][ /\ best' >= best
      /\ LoadBest(stored') >= LoadBest(stored)
      /\ (best' # best \/ stored' # stored) => (gameOver' /\ score' > best)
      /\ (gameOver' /\ ~gameOver) => best' >= score' ]_vars

\* C3: Reset, in any state, reinitializes every mutable field and clears the
\* flags started, paused and over.
C3_ResetClearsEverything ==
  [][ ResetStep =>
        /\ birdY' = Px(h) \div 2
        /\ birdVY' = 0
        /\ pipes' = << >>
        /\ score' = 0
        /\ lastSpawn' = 0
        /\ lastTime' = 0
        /\ passedPipeIndex' = 0
        /\ ~gameStarted'
        /\ ~paused'
        /\ ~gameOver' ]_vars

\* C4: the run state moves only NotStarted -> Running (Flap), Running <->
\* Paused (TogglePause), Running -> Over (a tick) and any -> NotStarted
\* (Reset); TogglePause changes nothing when the run is not started or is
\* over; a tick never starts, pauses or resumes a run.
C4_RunStateTransitions ==
  [][ /\ RunState' # RunState =>
           \/ RunState = "NotStarted" /\ RunState' = "Running" /\ FlapStep
           \/ RunState = "Running" /\ RunState' = "Paused" /\ PauseStep
           \/ RunState = "Paused" /\ RunState' = "Running" /\ PauseStep
           \/ RunState = "Running" /\ RunState' = "Over" /\ Tick
           \/ RunState' = "NotStarted" /\ ResetStep
      /\ (PauseStep /\ (~gameStarted \/ gameOver)) =>
           UNCHANGED << game, lastTime, best, stored, rafRef, pending, frame >>
      /\ Tick => (gameStarted' = gameStarted /\ paused' = paused) ]_vars

C4_PauseIgnoredWhenOver ==
  ev.op = "pause" /\ ev.run = "Over" /\ gameOver /\ ~paused

\* C5: once over is set it stays set under ticks, Flap and TogglePause, and
\* the actor (position, velocity), the obstacles and the score no longer
\* change; Reset, and only Reset, leaves Over.
C5_OverIsTerminal ==
  [][ gameOver =>
        IF ResetStep
        THEN ~gameOver'
        ELSE gameOver' /\ UNCHANGED << birdY, birdVY, pipes, score >> ]_vars

C5_InputInOver ==
  gameOver /\ ev.run = "Over" /\ ev.op = "tick" /\ score > 0

\* C6: a tick delivered while the run is Paused or NotStarted leaves the
\* actor, the obstacles, the spawn accumulator, the score and the over flag
\* unchanged.
C6_IdleTickChangesNothing ==
  [][ (Tick /\ (paused \/ ~gameStarted)) =>
        UNCHANGED << birdY, birdVY, pipes, score, lastSpawn, gameOver >> ]_vars

C6_TickWhilePaused ==
  ev.op = "tick" /\ ev.run = "Paused" /\ paused /\ pipes # << >>

\* The circle of radius r at (cx, cy) is within r of the nearest point of the
\* rectangle [x0, x1] x [y0, y1].
Touches(cx, cy, r, x0, x1, y0, y1) ==
  LET nx == IF cx < x0 THEN x0 ELSE IF cx > x1 THEN x1 ELSE cx
      ny == IF cy < y0 THEN y0 ELSE IF cy > y1 THEN y1 ELSE cy
  IN  SumSqLeq(cx - nx, cy - ny, r)

\* A terminal condition holds of the actor at height y among obstacles ps.
Terminal(y, ps) ==
  \/ y + Px(birdR) >= Px(h) - Px(groundH)
  \/ y - Px(birdR) <= 0
  \/ \E i \in 1..Len(ps) :
        \/ Touches(Px(birdX), y, Px(birdR), ps[i].x, ps[i].x + Px(pipeW),
                   0, ps[i].topH)
        \/ Touches(Px(birdX), y, Px(birdR), ps[i].x, ps[i].x + Px(pipeW),
                   ps[i].topH + Px(pipeGap), Px(h) - Px(groundH))

\* C7: a Running tick sets over exactly when, after its movement, the actor
\* is at or past the ground or the ceiling or within r of a rectangle of
\* some obstacle; so a run that is not over has the actor strictly between
\* ceiling and ground and clear of every obstacle.
C7_OverIffTerminal ==
  /\ [][ (Tick /\ Running) => (gameOver' <=> Terminal(birdY', pipes')) ]_vars
  /\ [](~gameOver => ~Terminal(birdY, pipes))

C7_EndedOnObstacle ==
  /\ gameOver
  /\ ev.op = "tick"
  /\ birdY + Px(birdR) < Px(h) - Px(groundH)
  /\ birdY - Px(birdR) > 0

\* C8: Reset from Over with a nonzero score gives score 0, started false and
\* no obstacles, and leaves best and the persisted best unchanged.
C8_ResetFromOver ==
  [][ (ResetStep /\ gameOver /\ score > 0) =>
        /\ score' = 0
        /\ ~gameStarted'
        /\ pipes' = << >>
        /\ best' = best
        /\ stored' = stored ]_vars

C8_AfterResetFromOver ==
  /\ ev.op = "reset" /\ ev.run = "Over" /\ ev.score > 0
  /\ score = 0 /\ best > 0

\* C9, as stated: after a Flap event the velocity is exactly the impulse,
\* whatever it was before, and the run is started.
C9_FlapSetsImpulse ==
  [][ FlapStep => (birdVY' = Vel(jump) /\ gameStarted') ]_vars

\* C9, amended: after a Flap event in a run that is not over the velocity is
\* exactly the impulse, whatever it was before, and the run is started; a
\* Flap in a run that is over leaves the velocity as it was.
C9_FlapSetsImpulseUnlessOver ==
  [][ FlapStep =>
        /\ gameStarted'
        /\ birdVY' = IF gameOver THEN birdVY ELSE Vel(jump) ]_vars

C9_FlappedWhileSinking ==
  /\ ev.op \in {"flap", "tap"} /\ ev.run = "Running" /\ ev.vy > 0
  /\ birdVY = Vel(jump)

\* C10: from a fresh session (best 0), after one Flap and frames at 60 Hz,
\* the run becomes over, before 10 simulated seconds and before any obstacle
\* is spawned, on the ground, with best = score if the score is above 0.
C10_OneFlapEndsOnGround ==
  /\ [](mountBest = 0 =>
         /\ Running => lastSpawn + spawned * spawnEvery < 10 * 1000
         /\ gameOver =>
              /\ spawned = 0
              /\ birdY + Px(birdR) >= Px(h) - Px(groundH)
              /\ score > 0 => best = score)
  /\ ((mountBest = 0 /\ gameStarted) ~> gameOver)

C10_FellToGround ==
  mountBest = 0 /\ gameOver /\ ev.op = "tick" /\ ev.run = "Running"

\* C11: loading the best score at startup never faults, and a missing, an
\* unreadable or a malformed stored value gives best = 0, while a stored
\* number is used as best.
C11_LoadDegradesGracefully ==
  ev.op # "render" =>
    /\ ev.op = "mount"
    /\ best = IF stored.has /\ Number(stored.text).finite
              THEN Number(stored.text).value
              ELSE 0

\* C12: the simulation never freezes: whenever the run is Running a frame
\* callback of the loop is requested or about to run, so ticks keep coming
\* until the run is paused or over.
C12_RunningHasFrame ==
  Running => (pending # << >> \/ frame # << >>)

\* C13: at most one frame callback of the loop is requested at any time, so
\* that a display frame performs at most one update step.
C13_OneLoopPending ==
  Len(pending) + Len(frame) <= 1

\* C14: the elapsed time of every tick is between 0 and 33 ms; it is the
\* time since the previous processed tick, capped at 33 ms, whenever the
\* time reference is set, and 0 otherwise; Reset clears the reference, so
\* the first tick after a Reset has dt = 0, and only Reset and a resume
\* clear it.
C14_DtIsCappedDelta ==
  [][ /\ Tick =>
           /\ ev'.dt >= 0 /\ ev'.dt <= DtCap
           /\ (~paused /\ lastTime # 0 /\ Now - lastTime <= DtCap) =>
                ev'.dt = Now - lastTime
           /\ (~paused /\ lastTime # 0 /\ Now - lastTime > DtCap) =>
                ev'.dt = DtCap
           /\ lastTime = 0 => ev'.dt = 0
           /\ ev.op = "reset" => ev'.dt = 0
      /\ ResetStep => lastTime' = 0
      /\ (lastTime # 0 /\ lastTime' = 0) =>
           (ResetStep \/ (PauseStep /\ paused)) ]_vars

C14_ShortFrame ==
  ev.op = "tick" /\ ev.run = "Running" /\ ev.dt > 0 /\ ev.dt < DtCap

\* C15: a resume clears the time reference, nothing but a processed tick
\* sets it again, and a tick processed while it is clear uses dt = 0: the
\* first tick processed after a resume has dt = 0, however long the pause
\* lasted and whether or not the frame pending at pause time has fired.
C15_ResumeClearsTime ==
  [][ /\ (PauseStep /\ RunState = "Paused") => (~paused' /\ lastTime' = 0)
      /\ (lastTime = 0 /\ lastTime' # 0) => (Tick /\ ~paused)
      /\ (Tick /\ ~paused /\ lastTime = 0) => ev'.dt = 0
      /\ (Tick /\ ev.op = "pause" /\ ev.run = "Paused") => ev'.dt = 0
    ]_vars

\* A tick in the middle of a run, the only loop's, that used dt = 0.
C15_FirstTickAfterResume ==
  /\ ev.op = "tick" /\ ev.run = "Running" /\ ev.dt = 0
  /\ lastSpawn > 0
  /\ Len(pending) = 1 /\ frame = << >>

\* C16: every obstacle has gapTopHeight >= 60 and gapTopHeight + gapSize <=
\* fieldHeight - groundHeight - 60, and a step keeps the gapTopHeight of
\* every obstacle it keeps: it drops some from the head and adds at most one
\* at the end.
C16_GapWithinBounds ==
  /\ [](\A i \in 1..Len(pipes) :
          /\ pipes[i].topH >= Px(60)
          /\ pipes[i].topH + Px(pipeGap) <= Px(h - groundH - 60))
  /\ [][ \E d \in 0..Len(pipes) :
           /\ Len(pipes') >= Len(pipes) - d
           /\ Len(pipes') <= Len(pipes) - d + 1
           /\ \A i \in 1..(Len(pipes) - d) :
                pipes'[i].topH = pipes[i + d].topH ]_vars

C16_TwoGapsScrolled ==
  /\ Len(pipes) >= 2
  /\ pipes[1].topH # pipes[2].topH
  /\ pipes[1].x < Px(birdX)

\* C17: the obstacle sequence is sorted ascending by horizontal position.
C17_SortedByPosition ==
  \A i \in 1..Len(pipes) : \A j \in 1..Len(pipes) :
    i < j => pipes[i].x < pipes[j].x

C17_ThreeObstacles ==
  Len(pipes) = 3 /\ ev.op = "tick"

\* C18: within a run obstacles leave the sequence only from its head and
\* only when their right edge is left of 0; the others keep their order,
\* move by the tick's distance, and after a Running tick none of them has
\* its right edge left of 0.  Nothing but a tick and Reset changes the
\* sequence.
C18_PruneOffscreenHead ==
  [][ /\ Tick =>
           LET d == Len(pipes) + (spawned' - spawned) - Len(pipes')
               moved == (Px(pipeSpeed) * ev'.dt) \div 1000
           IN  /\ d >= 0 /\ d <= Len(pipes)
               /\ \A i \in 1..d : pipes[i].x - moved + Px(pipeW) < 0
               /\ \A i \in (d + 1)..Len(pipes) :
                    /\ pipes'[i - d].x = pipes[i].x - moved
                    /\ pipes'[i - d].topH = pipes[i].topH
               /\ Running =>
                    \A i \in 1..Len(pipes') : pipes'[i].x + Px(pipeW) >= 0
      /\ (~Tick /\ ~ResetStep) => pipes' = pipes ]_vars

C18_HeadPruned ==
  ev.op = "tick" /\ spawned > Len(pipes) /\ pipes # << >>

\* C19: consecutive obstacles are at least pipeSpeed * spawnEvery = 210 px
\* apart, the spawn accumulator is in [0, 1400) ms, a step adds at most one
\* obstacle, at most one obstacle overlaps the actor's extent horizontally,
\* and the sequence never holds more than 3 obstacles.
C19_SpacedObstacles ==
  /\ [](/\ \A i \in 1..(Len(pipes) - 1) :
             pipes[i + 1].x - pipes[i].x >= Px((pipeSpeed * spawnEvery) \div 1000)
        /\ lastSpawn >= 0 /\ lastSpawn < spawnEvery
        /\ Cardinality({i \in 1..Len(pipes) :
                          /\ pipes[i].x <= Px(birdX + birdR)
                          /\ pipes[i].x + Px(pipeW) >= Px(birdX - birdR)}) <= 1
        /\ Len(pipes) <= 3)
  /\ [][ Len(pipes') <= Len(pipes) + 1 /\ spawned' <= spawned + 1 ]_vars

C19_ThreeAfterPrune ==
  Len(pipes) = 3 /\ spawned > 3

\* The bird after two physics steps of dt / 2 each, dt even.
TwoHalfSteps(y, vy, dt) ==
  LET va == fall(vy, dt \div 2)
      ya == rise(y, va, dt \div 2)
      vb == fall(va, dt \div 2)
  IN  [y |-> rise(ya, vb, dt \div 2), vy |-> vb]

\* C20, as stated: a physics step of dt gives the same position, within one
\* unit of rounding, as two steps of dt / 2 from the same position and
\* velocity.
C20_HalfStepsAgree ==
  [][ Integrate =>
        LET two == TwoHalfSteps(birdY, birdVY, ev'.dt)
        IN  birdY' - two.y <= 1 /\ two.y - birdY' <= 1 ]_vars

\* C20, amended: a physics step of dt gives the same velocity as two steps
\* of dt / 2, and a position further down by gravity * dt * dt / 4.
C20_HalfStepsLagByQuarter ==
  [][ Integrate =>
        LET two == TwoHalfSteps(birdY, birdVY, ev'.dt)
        IN  /\ birdVY' = two.vy
            /\ 4000 * (birdY' - two.y) = Vel(gravity) * ev'.dt * ev'.dt ]_vars

C20_FellAFullStep ==
  ev.op = "step" /\ ev.dt = 2 * MaxHalf /\ birdVY > 0

==========================================================================
